---- MODULE Spec2Model ----
(***************************************************************************)
(* font2oled.py: render the 256 single-byte characters of a font into a    *)
(* sheet of 8x8 cells at the largest size that fits, center each glyph,    *)
(* turn the sheet into a 0/1 matrix, pack the matrix into bytes and print  *)
(* the bytes as a C array.                                                 *)
(*                                                                         *)
(* The image is 10 pixels wide and 8*nbCharacters pixels high, mode "1"    *)
(* (every pixel is 0 or 255).  It is kept as im[cell][x] = the set of rows *)
(* r of that cell (0..7) whose pixel (x, 8*cell + r) is 255.               *)
(*                                                                         *)
(* The text renderer (PIL's ImageDraw.text) is outside the program.  A     *)
(* glyph is the sequence of pixel offsets <<dx, dy>> it paints relative to *)
(* the drawing origin; the renderer paints at or below and at or right of  *)
(* the origin, and only sets pixels (it never clears one).                 *)
(***************************************************************************)
EXTENDS Integers, Sequences, FiniteSets, TLC

\* ---------------------------------------------------------------- constants
nbCharacters == 256
minFontSize == 4
maxFontSize == 13

ImWidth == 10
CellSize == 8
ProbeColumn == 8
LastProbe == 128
White == 255

\* Bounds of the model.
MaxGlyphHeight == 12
MaxNameLen == 2
MaxRamp == 40

Cells == 0..(nbCharacters - 1)
Cols == 0..(CellSize - 1)
Rows == 0..(CellSize - 1)
ImCols == 0..(ImWidth - 1)

\* Characters are their codes.
Space == 32
Bang == 33
Comma == 44
Hyphen == 45
Dot == 46
Slash == 47
Colon == 58
Semicolon == 59
Question == 63

VARIABLES pc, argv, loadable, fontSize, oversized, im, saved, binary, data,
          stdout, stderr, status, tried, snap

vars == <<pc, argv, loadable, fontSize, oversized, im, saved, binary, data,
          stdout, stderr, status, tried, snap>>

\* ------------------------------------------------------------------- image
\* Image.new("1", (10, 8*nbCharacters), (0,0,0))
NewImage == [c \in Cells |-> [x \in ImCols |-> {}]]

getpixel(img, x, y) ==
    IF (y % CellSize) \in img[y \div CellSize][x] THEN White ELSE 0

putpixel(img, x, y, v) ==
    [img EXCEPT ![y \div CellSize][x] =
        IF v = 0 THEN @ \ {y % CellSize} ELSE @ \cup {y % CellSize}]

\* The two loops "for j in range(8): for pixel in range(8): putpixel((j, i*8
\* + pixel), 0)": columns 0..7 of cell i are cleared, columns 8 and 9 are not.
ClearChar(img, i) ==
    [img EXCEPT ![i] = [x \in ImCols |-> IF x \in Cols THEN {} ELSE @[x]]]

\* draw.text((0, i*8), ch, (255,255,255), font): the glyph's pixels are set,
\* clipped to the image.
RECURSIVE DrawText(_, _, _, _)
DrawText(img, i, glyph, k) ==
    IF k > Len(glyph) THEN img
    ELSE LET x == glyph[k][1]
             y == i * CellSize + glyph[k][2]
         IN  IF x \in ImCols /\ y < CellSize * nbCharacters
             THEN DrawText(putpixel(img, x, y, White), i, glyph, k + 1)
             ELSE DrawText(img, i, glyph, k + 1)

\* -------------------------------------------------------------- the renderer
\* What the font paints for character i at the size being tried.  A font of
\* the model gives one character (font.code) the glyph font.shape and every
\* other character the glyph BaseGlyph.
BaseGlyph == << <<0, 0>>, <<1, 1>>, <<2, 2>> >>

\* ink in the probe column, inside the character's own 8 rows
WideGlyph == << <<0, 0>>, <<7, 3>>, <<8, 3>> >>

\* ink in the probe column, below the character's own 8 rows
TallGlyph == << <<0, 0>>, <<3, 7>>, <<8, MaxGlyphHeight - 1>> >>

\* ink in column 9 only, which nothing looks at
FarGlyph == << <<4, 4>>, <<9, 2>> >>

Shapes == {WideGlyph, TallGlyph, FarGlyph}

SampleCodes == {65, LastProbe - 1, LastProbe, LastProbe + 1, nbCharacters - 1}

Fonts == [code : SampleCodes, shape : Shapes]

text(font, i) == IF i = font.code THEN font.shape ELSE BaseGlyph

\* ------------------------------------------------------------------ findSize
\* "if (i>=0 and i<=128): for pixel in range(8): if getpixel((8, i*8+pixel))
\* == 255: oversized = True; break"
ProbeInk(img, i) ==
    \E pixel \in Rows : getpixel(img, ProbeColumn, i * CellSize + pixel) = White

\* Faulty variant: the probe stops one character early.
CheckOversizedShort(img, i, over) ==
    IF i >= 0 /\ i < LastProbe /\ ProbeInk(img, i) THEN TRUE ELSE over

CheckOversized(img, i, over) ==
    IF i >= 0 /\ i <= LastProbe /\ ProbeInk(img, i) THEN TRUE ELSE over

\* The body of "for i in range(nbCharacters)" for character i: clear the
\* cell, draw the character, check the probe column.
RenderChar(st, font, i) ==
    LET drawn == DrawText(ClearChar(st.im, i), i, text(font, i), 1)
    IN  [im |-> drawn, oversized |-> CheckOversized(drawn, i, st.oversized)]

\* The loop over the characters lo..hi, in ascending order.  The range is
\* halved, and the state after the first half is evaluated before the second
\* half starts, to keep TLC's evaluation shallow; the bodies run in the loop's
\* order.
RECURSIVE RenderRange(_, _, _, _)
RenderRange(st, font, lo, hi) ==
    IF lo > hi THEN st
    ELSE IF lo = hi THEN RenderChar(st, font, lo)
    ELSE LET mid == (lo + hi) \div 2
             half == RenderRange(st, font, lo, mid)
         IN  IF half.oversized \in BOOLEAN
             THEN RenderRange(half, font, mid + 1, hi)
             ELSE half

\* One candidate size: a new image, "oversized = False", all characters.
Render(font) ==
    RenderRange([im |-> NewImage, oversized |-> FALSE], font, 0, nbCharacters - 1)

\* Whether a finished sheet has ink in the probe column of a cell 0..128
\* (recorded in the history variable tried, which the program does not read).
SheetProbeInk(img) == \E i \in 0..LastProbe : ProbeInk(img, i)

\* exit(-1): the status the process ends with
ExitFailure == (-1) % 256

\* "if (fontSize < minFontSize)": the test the loop makes before it goes one
\* size down.
BelowFloor(size) == size < minFontSize

\* Faulty variant: the error is reported and the sheet is returned all the same.
FindSizeFailReturns ==
    /\ pc = "findSize"
    /\ oversized
    /\ BelowFloor(fontSize)
    /\ oversized' = FALSE
    /\ stderr' = Append(stderr, "Error: an error happened while using the font")
    /\ pc' = "centerChar"
    /\ snap' = <<im>>
    /\ UNCHANGED <<argv, loadable, fontSize, im, saved, binary, data, stdout,
                   status, tried>>

\* One turn of "while (oversized)" that gives up.
FindSizeFail ==
    /\ pc = "findSize"
    /\ oversized
    /\ BelowFloor(fontSize)
    /\ oversized' = FALSE
    /\ stderr' = Append(stderr, "Error: an error happened while using the font")
    /\ status' = ExitFailure
    /\ pc' = "exit"
    /\ UNCHANGED <<argv, loadable, fontSize, im, saved, binary, data, stdout,
                   tried, snap>>

\* One turn of "while (oversized)" that renders the sheet one size down.
FindSizeTry ==
    /\ pc = "findSize"
    /\ oversized
    /\ ~BelowFloor(fontSize)
    /\ \E font \in Fonts :
          LET r == Render(font)
          IN  /\ im' = r.im
              /\ oversized' = r.oversized
              /\ tried' = Append(tried, [size |-> fontSize - 1,
                                         ink |-> SheetProbeInk(r.im)])
    /\ fontSize' = fontSize - 1
    /\ UNCHANGED <<pc, argv, loadable, saved, binary, data, stdout, stderr,
                   status, snap>>

\* "while (oversized)" ends; return im
FindSizeReturn ==
    /\ pc = "findSize"
    /\ ~oversized
    /\ pc' = "centerChar"
    /\ snap' = <<im>>
    /\ UNCHANGED <<argv, loadable, fontSize, oversized, im, saved, binary, data,
                   stdout, stderr, status, tried>>

\* ---------------------------------------------------------------- centerChar
\* Faulty variant: the semicolon is not among the exceptions.
CenteredSemicolon(i) ==
    i # Bang /\ i # Comma /\ i # Dot /\ i # Colon /\ i # Question

\* "Do not center horizontally punctuations signs [!,.:;?]"
Centered(i) ==
    i # Bang /\ i # Comma /\ i # Dot /\ i # Colon /\ i # Semicolon /\ i # Question

\* "pixels": the count of the pixels of column j of cell i that are 255.
ColumnPixels(img, i, j) == Cardinality(img[i][j])

\* "wsize": the count of the columns 0..7 of cell i with pixels != 0.
wsize(img, i) == Cardinality({j \in Cols : ColumnPixels(img, i, j) # 0})

\* Faulty variant: the column at index stride is cleared instead of copied.
ShiftColumnStrict(img, i, stride, j) ==
    IF j - stride > 0
    THEN [img EXCEPT ![i][j] = img[i][j - stride]]
    ELSE [img EXCEPT ![i][j] = {}]

\* shiftRight's column j: the 8 pixels of column j - stride are copied to
\* column j, or column j is cleared.
ShiftColumn(img, i, stride, j) ==
    IF j - stride >= 0
    THEN [img EXCEPT ![i][j] = img[i][j - stride]]
    ELSE [img EXCEPT ![i][j] = {}]

\* "for j in range(7, -1, -1)", from column j down, in place.
RECURSIVE ShiftDown(_, _, _, _)
ShiftDown(img, i, stride, j) ==
    IF j < 0 THEN img
    ELSE ShiftDown(ShiftColumn(img, i, stride, j), i, stride, j - 1)

\* Faulty variant: the columns are copied in ascending order.
RECURSIVE ShiftUp(_, _, _, _)
ShiftUp(img, i, stride, j) ==
    IF j >= CellSize THEN img
    ELSE ShiftUp(ShiftColumn(img, i, stride, j), i, stride, j + 1)

shiftRightAscending(img, i, stride) == ShiftUp(img, i, stride, 0)

shiftRight(img, i, stride) == ShiftDown(img, i, stride, CellSize - 1)

\* Faulty variant: the half of the slack is rounded up.
spacesRoundedUp(img, i) == (CellSize - wsize(img, i) + 1) \div 2

\* "spaces = (8-wsize)/2" (integer division)
spaces(img, i) == (CellSize - wsize(img, i)) \div 2

\* The body of centerChar's loop for character i.
CenterOne(img, i) ==
    IF Centered(i) THEN shiftRight(img, i, spaces(img, i)) ELSE img

\* "for i in range(nbCharacters)" over the characters lo..hi, in ascending
\* order.
RECURSIVE CenterRange(_, _, _)
CenterRange(img, lo, hi) ==
    IF lo > hi THEN img
    ELSE IF lo = hi THEN CenterOne(img, lo)
    ELSE LET mid == (lo + hi) \div 2
             half == CenterRange(img, lo, mid)
         IN  IF DOMAIN half = Cells
             THEN CenterRange(half, mid + 1, hi)
             ELSE half

centerChar(img) == CenterRange(img, 0, nbCharacters - 1)

\* ------------------------------------------------------------------ toBinary
\* Faulty variant: the clear pixels give 1.
toBinaryInverted(img) ==
    [i \in 0..7 |-> [j \in 0..(nbCharacters * 8 - 1) |->
        IF getpixel(img, i, j) = White THEN 0 ELSE 1]]

\* binary[i][j] = int(im.getpixel((i, j)) == 255), for j in
\* range(nbCharacters*8), i in range(8); the image's mode is "1" already.
toBinary(img) ==
    [i \in 0..7 |-> [j \in 0..(nbCharacters * 8 - 1) |->
        IF getpixel(img, i, j) = White THEN 1 ELSE 0]]

\* ------------------------------------------------------------------- convert
RECURSIVE Pow2(_)
Pow2(n) == IF n = 0 THEN 1 ELSE 2 * Pow2(n - 1)

\* a << n
ShiftLeft(a, n) == a * Pow2(n)

\* a | b
RECURSIVE BitOr(_, _)
BitOr(a, b) ==
    IF a = 0 THEN b
    ELSE IF b = 0 THEN a
    ELSE (IF a % 2 = 1 \/ b % 2 = 1 THEN 1 ELSE 0) + 2 * BitOr(a \div 2, b \div 2)

\* Faulty variant: the first pixel goes to the most significant bit.
PackedBitReversed(pixels, i, j, bit) == ShiftLeft(pixels[i][j * 8 + bit], 7 - bit)

\* What "data[i][j] |= (pixels[i][j*8 + bit] << bit)" ors into the byte.
PackedBit(pixels, i, j, bit) == ShiftLeft(pixels[i][j * 8 + bit], bit)

\* "for bit in range(8): data[i][j] |= ...", from bit on.
RECURSIVE PackFrom(_, _, _, _, _)
PackFrom(pixels, i, j, bit, acc) ==
    IF bit >= 8 THEN acc
    ELSE PackFrom(pixels, i, j, bit + 1, BitOr(acc, PackedBit(pixels, i, j, bit)))

convert(pixels) ==
    [i \in 0..7 |-> [j \in Cells |-> PackFrom(pixels, i, j, 0, 0)]]

\* -------------------------------------------------------------------- output
\* s.rfind(c): the last position of c in s, 0 when there is none (positions
\* count from 1 here).
RECURSIVE RFind(_, _, _)
RFind(s, c, k) ==
    IF k = 0 THEN 0 ELSE IF s[k] = c THEN k ELSE RFind(s, c, k - 1)

\* os.path.basename
basename(p) == SubSeq(p, RFind(p, Slash, Len(p)) + 1, Len(p))

\* os.path.splitext(p)[0]: cut at the last dot, unless only dots come before
\* it in the name.
SplitRoot(p) ==
    LET sepIndex == RFind(p, Slash, Len(p))
        dotIndex == RFind(p, Dot, Len(p))
    IN  IF dotIndex > sepIndex
           /\ \E k \in (sepIndex + 1)..(dotIndex - 1) : p[k] # Dot
        THEN SubSeq(p, 1, dotIndex - 1)
        ELSE p

\* The character class [ -:,\?]: the range from the space to the colon, the
\* comma and the question mark.
Stripped(c) == (c >= Space /\ c <= Colon) \/ c = Comma \/ c = Question

Kept(c) == ~Stripped(c)

\* re.sub('[ -:,\?]', '', filename)
Sanitize(name) == SelectSeq(name, Kept)

Identifier(path) == Sanitize(SplitRoot(basename(path)))

HexDigits == <<"0", "1", "2", "3", "4", "5", "6", "7",
               "8", "9", "a", "b", "c", "d", "e", "f">>

\* format(v, '#04x'), for a byte
Hex(v) == <<"0", "x", HexDigits[(v \div 16) + 1], HexDigits[(v % 16) + 1]>>

\* The text output() builds: the declaration's name and, for each character
\* j, its 8 bytes data[0][j] .. data[7][j] in hexadecimal.
output(table, path) ==
    [kind |-> "array",
     name |-> Identifier(path),
     rows |-> [j \in Cells |-> [i \in 0..7 |-> Hex(table[i][j])]]]

\* ---------------------------------------------------------------- the program
\* checkArgs(): "else" of "if len(sys.argv) == 2"
CheckArgsUsage ==
    /\ pc = "checkArgs"
    /\ Len(argv) # 2
    /\ stderr' = Append(stderr, "Error: invalid number of arguments")
    /\ stdout' = stdout \o <<[kind |-> "usage", name |-> <<>>, rows |-> <<>>],
                             [kind |-> "usage", name |-> argv[1], rows |-> <<>>]>>
    /\ status' = ExitFailure
    /\ pc' = "exit"
    /\ UNCHANGED <<argv, loadable, fontSize, oversized, im, saved, binary, data,
                   tried, snap>>

\* checkArgs(): ImageFont.truetype(sys.argv[1], 8) raises
CheckArgsNoFont ==
    /\ pc = "checkArgs"
    /\ Len(argv) = 2
    /\ ~loadable
    /\ stderr' = Append(stderr, "Error: unable to load Font")
    /\ status' = ExitFailure
    /\ pc' = "exit"
    /\ UNCHANGED <<argv, loadable, fontSize, oversized, im, saved, binary, data,
                   stdout, tried, snap>>

\* checkArgs(): the font loads, findSize is entered
\* (fontSize = maxFontSize; oversized = True)
CheckArgsFont ==
    /\ pc = "checkArgs"
    /\ Len(argv) = 2
    /\ loadable
    /\ fontSize' = maxFontSize
    /\ oversized' = TRUE
    /\ pc' = "findSize"
    /\ UNCHANGED <<argv, loadable, im, saved, binary, data, stdout, stderr,
                   status, tried, snap>>

\* checkArgs(): centerChar(im); im.save("font.png"); return im
CenterChar ==
    /\ pc = "centerChar"
    /\ im' = centerChar(im)
    /\ saved' = TRUE
    /\ pc' = "toBinary"
    /\ UNCHANGED <<argv, loadable, fontSize, oversized, binary, data, stdout,
                   stderr, status, tried, snap>>

\* binary = toBinary(image)
ToBinary ==
    /\ pc = "toBinary"
    /\ binary' = toBinary(im)
    /\ pc' = "convert"
    /\ UNCHANGED <<argv, loadable, fontSize, oversized, im, saved, data, stdout,
                   stderr, status, tried, snap>>

\* data = convert(binary)
Convert ==
    /\ pc = "convert"
    /\ data' = convert(binary)
    /\ pc' = "output"
    /\ UNCHANGED <<argv, loadable, fontSize, oversized, im, saved, binary,
                   stdout, stderr, status, tried, snap>>

\* print(output(data)), and the script ends
Output ==
    /\ pc = "output"
    /\ stdout' = Append(stdout, output(data, argv[2]))
    /\ status' = 0
    /\ pc' = "done"
    /\ UNCHANGED <<argv, loadable, fontSize, oversized, im, saved, binary, data,
                   stderr, tried, snap>>

\* The command lines of the model: the script's name alone, with one font, or
\* with two.
ScriptName == <<102, 46, 112, 121>>

\* "My Font-1.ttf"
MyFont == <<77, 121, Space, 70, 111, 110, 116, Hyphen, 49, Dot, 116, 116, 102>>

CommandLines == {<<ScriptName>>, <<ScriptName, MyFont>>,
                 <<ScriptName, MyFont, MyFont>>}

Init ==
    /\ pc = "checkArgs"
    /\ argv \in CommandLines
    /\ loadable \in BOOLEAN
    /\ fontSize = maxFontSize
    /\ oversized = TRUE
    /\ im = NewImage
    /\ saved = FALSE
    /\ binary = << >>
    /\ data = << >>
    /\ stdout = << >>
    /\ stderr = << >>
    /\ status = 0
    /\ tried = << >>
    /\ snap = << >>

Next ==
    \/ CheckArgsUsage
    \/ CheckArgsNoFont
    \/ CheckArgsFont
    \/ FindSizeFail
    \/ FindSizeTry
    \/ FindSizeReturn
    \/ CenterChar
    \/ ToBinary
    \/ Convert
    \/ Output

Spec == Init /\ [][Next]_vars

\* --------------------------------------------------- centerChar on any sheet
\* The sheets findSize can return hold anything in the columns 0..7 of a cell.
\* Column x of a glyph of the model, where it has ink, has its own two rows.
ColumnRows(x) == {x, (3 * x + 1) % CellSize}

GlyphCell(cols) == [x \in ImCols |-> IF x \in cols THEN ColumnRows(x) ELSE {}]

\* The glyph with ink in the columns cols in every second cell, the base glyph
\* (columns 0..2) in the others.
Sheet(cols, alt) ==
    [c \in Cells |-> IF c % 2 = alt THEN GlyphCell(cols) ELSE GlyphCell(0..2)]

Sheets == {Sheet(cols, alt) : cols \in SUBSET Cols, alt \in {0, 1}}

\* The state in which findSize has returned the sheet img at the first size.
Returned(img) ==
    /\ pc = "centerChar"
    /\ argv = <<ScriptName, MyFont>>
    /\ loadable = TRUE
    /\ fontSize = maxFontSize - 1
    /\ oversized = FALSE
    /\ im = img
    /\ saved = FALSE
    /\ binary = << >>
    /\ data = << >>
    /\ stdout = << >>
    /\ stderr = << >>
    /\ status = 0
    /\ tried = <<[size |-> maxFontSize - 1, ink |-> FALSE]>>
    /\ snap = <<img>>

InitCenter == \E img \in Sheets : Returned(img)

\* centerChar applied to the centered sheet once more (the script does not).
CenterAgain ==
    /\ pc = "toBinary"
    /\ Len(snap) = 1
    /\ im' = centerChar(im)
    /\ snap' = Append(snap, im)
    /\ UNCHANGED <<pc, argv, loadable, fontSize, oversized, saved, binary, data,
                   stdout, stderr, status, tried>>

NextCenter == CenterChar \/ CenterAgain

SpecCenter == InitCenter /\ [][NextCenter]_vars

\* ------------------------------------------------ the pipeline on any sheet
\* The rows of a column whose 8 pixels, top row first, read v in binary.
Bits(v) == {r \in Rows : (v \div Pow2(r)) % 2 = 1}

\* A sheet whose columns hold every byte value: full-width glyphs, which
\* centerChar leaves where they are.
RampSheet(k) ==
    [c \in Cells |-> [x \in ImCols |->
        IF x \in Cols THEN Bits((7 * c + 37 * x + k) % 256) ELSE {}]]

InitPack == \E k \in 0..(MaxRamp - 1) : Returned(RampSheet(k))

NextPack == CenterChar \/ ToBinary \/ Convert \/ Output

SpecPack == InitPack /\ [][NextPack]_vars

\* ------------------------------------------------------ output on any path
NameChars == {77, 121, 49, 95, 64, Space, Bang, Comma, Hyphen, Dot, Slash,
              Colon, Semicolon, Question}

RECURSIVE Strings(_)
Strings(n) ==
    IF n = 0 THEN {<< >>}
    ELSE LET shorter == Strings(n - 1)
         IN  shorter \cup {Append(t, c) : t \in shorter, c \in NameChars}

\* The paths a font can have been loaded from: they name a file.
Paths == {p \in Strings(MaxNameLen) \cup {MyFont} :
             p # << >> /\ p[Len(p)] # Slash}

ZeroTable == [i \in 0..7 |-> [j \in Cells |-> 0]]

\* The state before "print(output(data))" for a font whose glyphs are blank.
InitName ==
    /\ pc = "output"
    /\ argv \in {<<ScriptName, p>> : p \in Paths}
    /\ loadable = TRUE
    /\ fontSize = maxFontSize - 1
    /\ oversized = FALSE
    /\ im = NewImage
    /\ saved = TRUE
    /\ binary = [i \in 0..7 |-> [j \in 0..(nbCharacters * 8 - 1) |-> 0]]
    /\ data = ZeroTable
    /\ stdout = << >>
    /\ stderr = << >>
    /\ status = 0
    /\ tried = <<[size |-> maxFontSize - 1, ink |-> FALSE]>>
    /\ snap = <<NewImage>>

SpecName == InitName /\ [][Output]_vars

\* =================================================================== claims
\* Bit b of the byte v.
Bit(v, b) == (v \div Pow2(b)) % 2

\* 1 where the pixel (x, y) of the image is set, else 0.
Pixel(img, x, y) == IF getpixel(img, x, y) = White THEN 1 ELSE 0

\* The columns 0..7 of a cell that hold ink, and their number.
InkColumns(cell) == {c \in Cols : cell[c] # {}}

InkWidth(cell) == Cardinality(InkColumns(cell))

Slack(cell) == (CellSize - InkWidth(cell)) \div 2

RECURSIVE SumOver(_, _)
SumOver(cell, c) ==
    IF c < 0 THEN 0 ELSE Cardinality(cell[c]) + SumOver(cell, c - 1)

\* The number of set pixels in the columns 0..7 of a cell.
InkPixels(cell) == SumOver(cell, CellSize - 1)

ExceptionCodes == {33, 44, 46, 58, 59, 63}

Packed == pc \in {"output", "done"}

\* The sheet has been centered once, and not again.
CenteredOnce == pc = "toBinary" /\ Len(snap) = 1

CenteredTwice == Len(snap) = 2

\* C1 (as stated): once the final sheet is packed, bit b of table[r][j] is the
\* pixel of glyph j at pixel row r and pixel column b (x = b, y = 8*j + r):
\* a byte is one horizontal row of the glyph.
C1_ByteIsRow ==
    Packed =>
        \A r \in 0..7 : \A j \in Cells : \A b \in 0..7 :
            Bit(data[r][j], b) = Pixel(im, b, 8 * j + r)

\* C1 (amended): once the final sheet is packed, bit b of table[r][j] is the
\* pixel of glyph j at pixel column r and pixel row b (x = r, y = 8*j + b):
\* a byte is one vertical column of the glyph, least-significant bit on top.
C1_ByteIsColumn ==
    Packed =>
        \A r \in 0..7 : \A j \in Cells : \A b \in 0..7 :
            Bit(data[r][j], b) = Pixel(im, r, 8 * j + b)

\* A packed sheet with a set pixel whose mirror pixel is clear.
C1_Witness ==
    /\ Packed
    /\ \E r \in 0..7 : \E j \in Cells : \E b \in 0..7 :
          /\ Bit(data[r][j], b) = 1
          /\ Pixel(im, r, 8 * j + b) = 1
          /\ Pixel(im, b, 8 * j + r) = 0

\* C2 (as stated): whenever findSize has returned a sheet, the size it was
\* rendered at is in minFontSize .. maxFontSize - 1.
C2_SizeInRange ==
    pc \in {"centerChar", "toBinary", "convert", "output", "done"} =>
        fontSize \in minFontSize..(maxFontSize - 1)

\* C3: the sizes tried are maxFontSize - 1, maxFontSize - 2, ... one by one;
\* a size is rejected exactly when its sheet has ink in the probe column of a
\* cell 0..128; the sheet returned is that of the first size not rejected, and
\* it has no ink in the probe column of the cells 0..128.
C3_FirstFit ==
    /\ \A k \in DOMAIN tried : tried[k].size = maxFontSize - k
    /\ \A k \in DOMAIN tried : k < Len(tried) => tried[k].ink
    /\ (pc = "findSize" /\ tried # << >>) => (oversized <=> tried[Len(tried)].ink)
    /\ pc = "centerChar" =>
          /\ tried # << >>
          /\ fontSize = tried[Len(tried)].size
          /\ ~tried[Len(tried)].ink
          /\ \A i \in 0..128 : im[i][8] = {}

\* Size 12 had ink in the probe column and the sheet of size 11 is returned.
C3_Witness ==
    /\ pc = "centerChar"
    /\ fontSize = 11
    /\ Len(tried) = 2
    /\ tried[1] = [size |-> 12, ink |-> TRUE]
    /\ \E i \in Cells : im[i][8] # {}

\* C4: after centerChar, the cell of every glyph i that is no exception is its
\* cell before, shifted right by spaces = floor((8 - w) / 2): column c >=
\* spaces is the old column c - spaces, the columns below spaces are empty.
C4_ShiftedCopy ==
    CenteredOnce =>
        \A i \in Cells \ ExceptionCodes :
            \A c \in Cols :
                im[i][c] = IF c >= Slack(snap[1][i])
                           THEN snap[1][i][c - Slack(snap[1][i])]
                           ELSE {}

\* A glyph of ink width 4 with ink in column 5: its column 7 is the old
\* column 5 and its columns 0 and 1 are empty.
C4_Witness ==
    /\ CenteredOnce
    /\ \E i \in Cells \ ExceptionCodes :
          /\ InkWidth(snap[1][i]) = 4
          /\ snap[1][i][5] # {}
          /\ im[i][7] = snap[1][i][5]
          /\ im[i][0] = {}
          /\ im[i][1] = {}

\* C5: after centerChar, the cells of the codes 33, 44, 46, 58, 59 and 63 are
\* as findSize returned them.
C5_ExceptionsKept ==
    CenteredOnce => \A i \in ExceptionCodes : im[i] = snap[1][i]

\* Each exception cell holds a left-aligned glyph of some width below 7, which
\* would have moved, and still holds it, while the cell before 33 has moved.
C5_Witness ==
    /\ CenteredOnce
    /\ \A i \in ExceptionCodes :
          /\ 0 \in InkColumns(snap[1][i])
          /\ InkWidth(snap[1][i]) < 7
          /\ im[i] = snap[1][i]
    /\ im[32] # snap[1][32]

\* C6 (as stated): for every glyph that is no exception and whose slack 8 - w
\* is even, a second centerChar leaves the cell as the first one left it.
C6_EvenSlackIdempotent ==
    CenteredTwice =>
        \A i \in Cells \ ExceptionCodes :
            (CellSize - InkWidth(snap[1][i])) % 2 = 0 => im[i] = snap[2][i]

\* C6 (amended): for every glyph that is no exception, a second centerChar
\* leaves the cell as the first one left it exactly when the first one did not
\* shift (w >= 7) or left the columns 0..7 empty.
C6_IdempotentWhenUnshifted ==
    CenteredTwice =>
        \A i \in Cells \ ExceptionCodes :
            (im[i] = snap[2][i]) <=>
                (InkWidth(snap[1][i]) >= 7 \/ InkColumns(snap[2][i]) = {})

\* A full-width glyph is left alone twice, and a glyph of width 4 is shifted
\* twice.
C6_Witness ==
    /\ CenteredTwice
    /\ \E i \in Cells \ ExceptionCodes :
          InkWidth(snap[1][i]) = 8 /\ im[i] = snap[2][i] /\ im[i] = snap[1][i]
    /\ \E i \in Cells \ ExceptionCodes :
          InkWidth(snap[1][i]) = 3 /\ im[i] # snap[2][i]

\* C7 (as stated): the name printed is the base filename without its extension
\* with the space, the hyphen, the colon, the comma and the question mark
\* removed and every other character kept; "My Font-1.ttf" gives MyFont1.
NotReserved(c) == c \notin {Space, Hyphen, Colon, Comma, Question}

C7_FiveCharactersStripped ==
    pc = "done" =>
        /\ stdout[Len(stdout)].name =
               SelectSeq(SplitRoot(basename(argv[2])), NotReserved)
        /\ argv[2] = MyFont =>
               stdout[Len(stdout)].name = <<77, 121, 70, 111, 110, 116, 49>>

\* C8: the array is on standard output only when the script is done, with
\* status 0, nothing on standard error, as the only output, whole (8 bytes for
\* each of the nbCharacters characters), and made from the returned sheet by
\* centerChar, toBinary and convert in this order; a run that reports an error
\* ends with a status that is not 0, has printed no array and has run none of
\* centerChar, toBinary, convert and output.
ArrayPrinted == \E k \in DOMAIN stdout : stdout[k].kind = "array"

C9_PackRoundTrip ==
    Packed =>
        /\ DOMAIN data = 0..7
        /\ \A r \in 0..7 :
              /\ DOMAIN data[r] = Cells
              /\ \A j \in Cells : data[r][j] \in 0..255
        /\ binary = [r \in 0..7 |-> [c \in 0..(8 * nbCharacters - 1) |->
                        Bit(data[r][c \div 8], c % 8)]]

\* A table with the bytes 0, 255 and 29 (binary 00011101) in it.
C9_Witness ==
    /\ Packed
    /\ \E r \in 0..7 : \E j \in Cells :
          /\ data[r][j] = 29
          /\ [b \in 0..7 |-> binary[r][8 * j + b]] =
                 [b \in 0..7 |-> IF b \in {0, 2, 3, 4} THEN 1 ELSE 0]
    /\ \E r \in 0..7 : \E j \in Cells : data[r][j] = 255
    /\ \E r \in 0..7 : \E j \in Cells : data[r][j] = 0

\* C10: a glyph that is no exception and whose ink is in the columns 0..w-1
\* exactly has, after centerChar, its ink in the columns s..s+w-1 exactly, s =
\* floor((8 - w) / 2), as many set pixels as before, and a right margin 8 - w
\* - s of s or s + 1.
C10_LeftAlignedCentered ==
    CenteredOnce =>
        \A i \in Cells \ ExceptionCodes :
            \A w \in 0..8 :
                InkColumns(snap[1][i]) = 0..(w - 1) =>
                    LET s == (8 - w) \div 2
                    IN  /\ InkColumns(im[i]) = s..(s + w - 1)
                        /\ InkPixels(im[i]) = InkPixels(snap[1][i])
                        /\ (8 - w - s) \in {s, s + 1}

\* A left-aligned glyph of width 5 sits in the columns 1..5 after centerChar.
C10_Witness ==
    /\ CenteredOnce
    /\ \E i \in Cells \ ExceptionCodes :
          /\ InkColumns(snap[1][i]) = 0..4
          /\ InkColumns(im[i]) = 1..5
          /\ InkPixels(im[i]) = 10

====
